---- MODULE Spec2Model ----
(***************************************************************************)
(* CloudSSHSpawner (cloudsshspawner/cloudsshspawner.py): the lifecycle of  *)
(* one remote single-user server: start, poll, stop and the persisted      *)
(* state (pid, remote_host).  Every await on the transport is one step of  *)
(* the calling coroutine; the synchronous code between two awaits belongs  *)
(* to the step that precedes it.                                           *)
(***************************************************************************)
EXTENDS Integers, Sequences, FiniteSets, TLC

\* Longest standard output a remote command produces in the model.
MaxStdoutLen == 2

\* Spawner instances of one user (named servers share user.name).
Spawners == {"s1", "s2"}

\* remote_host = Unicode("remote_host", ...) and clear_state's reset value.
DefaultHost == "remote_host"

\* exec_notebook's result when the launch script printed nothing.
LaunchFailed == -1

\* The signals poll() and stop() send.
SigProbe == 0
SigTerm == 15

\* Candidate configurations of remote_hosts.
Pools == {<< >>, <<"h1">>, <<"h1", "h2">>}

\* Configured hub_api_url: "" is "not set".
ApiUrls == {"", "http://override/api"}

\* self.hub.api_url, the orchestrator's default callback URL.
HubDefaultApiUrl == "http://hub/api"

VARIABLES
    remote_hosts,               \* config: the host pool
    internal_ssl,               \* config: user.settings["internal_ssl"]
    ssh_forward_tunnel_client,  \* config: stage the tunnel keys
    hub_api_url,                \* config: overriding callback URL
    pid,                        \* self.pid, per spawner
    remote_host,                \* self.remote_host, per spawner
    pc,                         \* where each spawner's current call stands
    call,                       \* the lifecycle call in progress
    port,                       \* start()'s local `port`
    ret,                        \* what the call returned or raised
    pre,                        \* (pid, remote_host) when the call began
    log,                        \* the operations the call has performed
    sessions,                   \* transport sessions the call holds open
    run_script,                 \* content of /tmp/{user}_run.sh
    launchedOn                  \* host on which start() launched the tracked
                                \* pid; "" when no launch of this controller
                                \* produced it

cfgvars == <<remote_hosts, internal_ssl, ssh_forward_tunnel_client, hub_api_url>>
vars == <<remote_hosts, internal_ssl, ssh_forward_tunnel_client, hub_api_url,
          pid, remote_host, pc, call, port, ret, pre, log,
          sessions, run_script, launchedOn>>

----------------------------------------------------------------------------
(* Bytes a remote command may print, and Python's int() on them.           *)

Bytes == {"0", "1", "-", "\n"}
Digits == {"0", "1"}

\* result.stdout, bytes as the code's comparison with b"" takes it to be.
Stdouts == UNION {[1..n -> Bytes] : n \in 0..MaxStdoutLen}

DigitVal(c) == IF c = "1" THEN 1 ELSE 0

RECURSIVE StripLeft(_)
StripLeft(b) ==
    IF b # << >> /\ Head(b) = "\n" THEN StripLeft(Tail(b)) ELSE b

RECURSIVE StripRight(_)
StripRight(b) ==
    IF b # << >> /\ b[Len(b)] = "\n"
    THEN StripRight(SubSeq(b, 1, Len(b) - 1))
    ELSE b

IsDigits(b) == b # << >> /\ \A i \in 1..Len(b) : b[i] \in Digits

RECURSIVE DigitsVal(_)
DigitsVal(b) ==
    IF b = << >> THEN 0
    ELSE 10 * DigitsVal(SubSeq(b, 1, Len(b) - 1)) + DigitVal(b[Len(b)])

\* int(stdout): surrounding whitespace stripped, an optional sign, digits;
\* anything else raises ValueError.
ParseInt(b) ==
    LET t == StripRight(StripLeft(b)) IN
    IF t # << >> /\ Head(t) = "-" /\ IsDigits(Tail(t))
    THEN [err |-> FALSE, val |-> 0 - DigitsVal(Tail(t))]
    ELSE IF IsDigits(t)
         THEN [err |-> FALSE, val |-> DigitsVal(t)]
         ELSE [err |-> TRUE, val |-> 0]

----------------------------------------------------------------------------
(* Values.                                                                 *)

NoneVal == [none |-> TRUE, val |-> 0]
Some(v) == [none |-> FALSE, val |-> v]

Ret(kind, h, v) == [kind |-> kind, host |-> h, val |-> v]
Pending == Ret("pending", "", 0)
RetFalse == Ret("False", "", 0)
RetNone == Ret("None", "", 0)
RetInt(v) == Ret("int", "", v)
RetPair(h, p) == Ret("pair", h, p)
Raised(exc) == Ret("raise", exc, 0)

Arg(name, num, url) == [name |-> name, num |-> num, url |-> url]

\* cmd = self.cmd + self.get_args(): the program, its port flag and the
\* hub's default callback URL.
BaseCmd ==
    << Arg("jupyterhub-singleuser", 0, ""),
       Arg("--port", 0, ""),
       Arg("--hub-api-url", 0, HubDefaultApiUrl) >>

NoFile == [by |-> "", cmd |-> << >>]

\* The state dict with no key.
NoKeys == [k \in {} |-> 0]

\* One operation of a call: what was done, on which host, by which spawner;
\* for a remote command whether its standard output was empty, its exit
\* status, and whether the method that ran it returned (done) or raised;
\* for a signal the signal and its target; for the launch the script content
\* sent, who wrote it, and the pid exec_notebook returned; for load_state
\* the dict it was given.
Ev(op, h, by) ==
    [op |-> op, host |-> h, by |-> by, done |-> FALSE, empty |-> FALSE,
     status |-> 0, sig |-> 0, pid |-> 0, cmd |-> << >>, author |-> "",
     state |-> NoKeys]

Read(e, out) == [e EXCEPT !.empty = (out = << >>)]
Got(e, out) == [Read(e, out) EXCEPT !.done = TRUE]

Snapshot(s) == [pid |-> pid[s], host |-> remote_host[s]]
NoSnapshot == [pid |-> 0, host |-> ""]

----------------------------------------------------------------------------
(* Pure parts of the handlers.                                             *)

\* get_state: the base class's record is empty; pid and remote_host are
\* added when truthy.
GetStateOf(p, h) ==
    [k \in (IF p # 0 THEN {"pid"} ELSE {}) \cup
            (IF h # "" THEN {"remote_host"} ELSE {})
        |-> IF k = "pid" THEN p ELSE h]

GetState(s) == GetStateOf(pid[s], remote_host[s])

\* clear_state's values.
ClearedHost == DefaultHost
ClearedPid == 0

\* Variant: an absent pid key resets the pid.
LoadedPid_Default(s, m) == IF "pid" \in DOMAIN m THEN m["pid"] ELSE 0

\* load_state: a key that is absent leaves the attribute as it is.
LoadedPid(s, m) == IF "pid" \in DOMAIN m THEN m["pid"] ELSE pid[s]
LoadedHost(s, m) ==
    IF "remote_host" \in DOMAIN m THEN m["remote_host"] ELSE remote_host[s]

\* Variant: an empty pool falls back to the default host.
ChooseRemoteHost_Fallback ==
    IF remote_hosts = << >> THEN {DefaultHost}
    ELSE {remote_hosts[i] : i \in 1..Len(remote_hosts)}

\* choose_remote_host: random.choice over the pool; no choice on an empty
\* pool.
ChooseRemoteHost == {remote_hosts[i] : i \in 1..Len(remote_hosts)}

\* remote_random_port after the session: the port, None, or ValueError.
RemoteRandomPort(out) ==
    IF out # << >>
    THEN LET r == ParseInt(out) IN
         IF r.err THEN [raise |-> TRUE, port |-> NoneVal]
         ELSE [raise |-> FALSE, port |-> Some(r.val)]
    ELSE [raise |-> FALSE, port |-> NoneVal]

\* Variant: the `port is None` test is lost.
PortUnusable_ZeroOnly(h, p) == ~p.none /\ p.val = 0

\* start(): `if self.remote_host is None or port is None or port == 0`.
PortUnusable(h, p) == p.none \/ p.val = 0

\* start(): the callback URL is replaced when hub_api_url is configured.
ReplaceApiUrl(cmd) ==
    IF hub_api_url # ""
    THEN [i \in DOMAIN cmd |->
            IF cmd[i] = Arg("--hub-api-url", 0, HubDefaultApiUrl)
            THEN Arg("--hub-api-url", 0, hub_api_url)
            ELSE cmd[i]]
    ELSE cmd

\* value[0:6] == "--port"
HasPortPrefix(a) == a.name \in {"--port", "--port-retries"}

\* Variant: the port arguments are left as get_args() gave them.
ReplacePort_Keeps(cmd, p) == cmd

\* start(): every argument that starts with --port becomes --port=<port>.
ReplacePort(cmd, p) ==
    [i \in DOMAIN cmd |->
        IF HasPortPrefix(cmd[i]) THEN Arg("--port", p, "") ELSE cmd[i]]

RemoteCmd(p) == ReplacePort(ReplaceApiUrl(BaseCmd), p)

\* Variant: the output is parsed without the emptiness test.
ExecNotebook_ParsesEmpty(out) ==
    LET r == ParseInt(out) IN
    IF r.err THEN [raise |-> TRUE, pid |-> 0]
    ELSE [raise |-> FALSE, pid |-> r.val]

\* exec_notebook after the session: the pid, -1, or ValueError.
ExecNotebook(out) ==
    IF out # << >>
    THEN LET r == ParseInt(out) IN
         IF r.err THEN [raise |-> TRUE, pid |-> 0]
         ELSE [raise |-> FALSE, pid |-> r.val]
    ELSE [raise |-> FALSE, pid |-> LaunchFailed]

\* Variant: `<= 0` for `< 0`.
StartResult_ZeroFails(p, h, prt) == IF p <= 0 THEN RetNone ELSE RetPair(h, prt)

\* start(): `if self.pid < 0: return None`, else (remote_host, port).
StartResult(p, h, prt) == IF p < 0 THEN RetNone ELSE RetPair(h, prt)

\* Variant: the exit status is read the wrong way round.
Alive_Inverted(retcode) == retcode # 0

\* remote_signal: `return retcode == 0`.
Alive(retcode) == retcode = 0

\* Variant: only a negative pid counts as "no pid".
NoPid_Negative(s) == pid[s] < 0

\* poll(): `if not self.pid`.
NoPid(s) == pid[s] = 0

----------------------------------------------------------------------------
(* Building blocks of the steps.                                           *)

Goto(s, loc) == pc' = [pc EXCEPT ![s] = loc]

Finish(s, r) ==
    /\ pc' = [pc EXCEPT ![s] = "done"]
    /\ ret' = [ret EXCEPT ![s] = r]

Begin(s, c) ==
    /\ pc[s] = "idle"
    /\ call' = [call EXCEPT ![s] = c]
    /\ pre' = [pre EXCEPT ![s] = Snapshot(s)]

Logged(s, lg) == log' = [log EXCEPT ![s] = lg]

\* Variant: leaving the block does not close the session.
CloseSession_Leak(s) == UNCHANGED sessions

\* `async with asyncssh.connect(...)` is left: the session is closed.
CloseSession(s) == sessions' = [sessions EXCEPT ![s] = @ - 1]

\* Variant: clear_state resets the pid only.
ClearStateOf_PidOnly(s) ==
    /\ pid' = [pid EXCEPT ![s] = 0]
    /\ launchedOn' = [launchedOn EXCEPT ![s] = ""]
    /\ UNCHANGED remote_host

\* clear_state on spawner s.
ClearStateOf(s) ==
    /\ remote_host' = [remote_host EXCEPT ![s] = ClearedHost]
    /\ pid' = [pid EXCEPT ![s] = ClearedPid]
    /\ launchedOn' = [launchedOn EXCEPT ![s] = ""]

KeepState == UNCHANGED <<pid, remote_host, launchedOn>>

\* asyncssh.connect at location `here`: the session opens, or the
\* connection failure leaves the coroutine.
Connect(s, here, next) ==
    /\ pc[s] = here
    /\ \/ /\ sessions' = [sessions EXCEPT ![s] = @ + 1]
          /\ Goto(s, next)
          /\ UNCHANGED ret
       \/ /\ Finish(s, Raised("ConnectionFailure"))
          /\ UNCHANGED sessions
    /\ UNCHANGED <<cfgvars, pid, remote_host, call, port, pre,
                   log, run_script, launchedOn>>

\* cloudsshspawner.io.chmod(path, mode): whether the mode was set.
ChmodResults == BOOLEAN

\* Variant: the result of chmod is not looked at.
TunnelRaises_IgnoresChmod(created, chmodOk) == ~created

\* start_ssh_remote_forward_session raises when its script does not exist
\* after the write, or when chmod fails.
TunnelRaises(created, chmodOk) == ~created \/ ~chmodOk

\* start(): the tunnel keys are staged when ssh_forward_tunnel_client is
\* set.
KeyEvents(s) ==
    IF ssh_forward_tunnel_client
    THEN <<[Ev("stage_keys", remote_host[s], s) EXCEPT !.done = TRUE]>>
    ELSE << >>

\* start_ssh_remote_forward_session: the script is written, made
\* executable if it exists, and executed if that succeeded.
TunnelEvents(s, created, chmodOk) ==
    LET e(op, ok) == [Ev(op, remote_host[s], s) EXCEPT !.done = ok] IN
    <<e("tunnel_write", created)>> \o
    (IF created THEN <<e("tunnel_chmod", chmodOk)>> ELSE << >>) \o
    (IF created /\ chmodOk THEN <<e("tunnel_exec", TRUE)>> ELSE << >>)

\* exec_notebook up to its connect: the launch script is written.
ScriptEvents(s, written, cmd) ==
    <<[Ev("script_write", remote_host[s], s)
         EXCEPT !.done = written, !.cmd = cmd, !.author = s]>>

\* Variant: the launch script is written before the tunnel is set up.
LocalEvents_ScriptFirst(keys, tunnel, script) == keys \o script \o tunnel

\* The local steps in the order of start(): key staging (203-209), the
\* tunnel (252), the launch script (255).
LocalEvents(keys, tunnel, script) == keys \o tunnel \o script

\* start() from the tunnel-key staging to exec_notebook's connect: the key
\* staging (when enabled), the command rewriting, the reverse-tunnel script
\* (written, made executable, executed) and the launch script (written).
LocalSteps(s, lg, p) ==
    LET cmd == RemoteCmd(p) IN
    \E created \in BOOLEAN :
    \E chmodOk \in (IF created THEN ChmodResults ELSE {TRUE}) :
    \E written \in (IF created /\ chmodOk THEN BOOLEAN ELSE {TRUE}) :
        LET tunnel == TunnelEvents(s, created, chmodOk) IN
        IF TunnelRaises(created, chmodOk)
        THEN /\ Finish(s, Raised("Exception"))
             /\ Logged(s, lg \o LocalEvents(KeyEvents(s), tunnel, << >>))
             /\ UNCHANGED run_script
        ELSE /\ Logged(s, lg \o LocalEvents(KeyEvents(s), tunnel,
                                            ScriptEvents(s, written, cmd)))
             /\ IF written
                THEN /\ run_script' = [by |-> s, cmd |-> cmd]
                     /\ Goto(s, "launch_connect")
                     /\ UNCHANGED ret
                ELSE /\ Finish(s, Raised("Exception"))
                     /\ UNCHANGED run_script

----------------------------------------------------------------------------
(* start()                                                                 *)

\* start() up to remote_random_port's connect: the host is chosen and
\* stored; random.choice raises IndexError on an empty pool.
StartCall(s) ==
    /\ Begin(s, "start")
    /\ IF ChooseRemoteHost = {}
       THEN /\ Finish(s, Raised("IndexError"))
            /\ UNCHANGED <<remote_host, log>>
       ELSE /\ \E h \in ChooseRemoteHost :
                 /\ remote_host' = [remote_host EXCEPT ![s] = h]
                 /\ Logged(s, <<Ev("choose", h, s)>>)
            /\ Goto(s, "port_connect")
            /\ UNCHANGED ret
    /\ UNCHANGED <<cfgvars, pid, port, sessions,
                   run_script, launchedOn>>

PortConnect(s) == Connect(s, "port_connect", "port_run")

\* remote_random_port's command returns; start() goes on to the next await.
PortRun(s) ==
    /\ pc[s] = "port_run"
    /\ CloseSession(s)
    /\ LET e == Ev("port", remote_host[s], s) IN
       \/ /\ Finish(s, Raised("RemoteCommandFailure"))
          /\ Logged(s, Append(log[s], e))
          /\ UNCHANGED <<port, run_script>>
       \/ \E out \in Stdouts :
            LET r == RemoteRandomPort(out)
                lg == Append(log[s], Got(e, out))
            IN
            IF r.raise
            THEN /\ Finish(s, Raised("ValueError"))
                 /\ Logged(s, Append(log[s], Read(e, out)))
                 /\ UNCHANGED <<port, run_script>>
            ELSE /\ port' = [port EXCEPT ![s] = r.port]
                 /\ IF PortUnusable(remote_host[s], r.port)
                    THEN /\ Finish(s, RetFalse)
                         /\ Logged(s, lg)
                         /\ UNCHANGED run_script
                    ELSE IF internal_ssl
                         THEN /\ Goto(s, "mkdir_connect")
                              /\ Logged(s, Append(lg,
                                   Ev("stage_certs", remote_host[s], s)))
                              /\ UNCHANGED <<ret, run_script>>
                         ELSE LocalSteps(s, lg, r.port.val)
    /\ UNCHANGED <<cfgvars, pid, remote_host, call, pre, launchedOn>>

MkdirConnect(s) == Connect(s, "mkdir_connect", "mkdir_run")

\* Variant: a failed mkdir is tried again.
MkdirRun_Retry(s) ==
    /\ pc[s] = "mkdir_run"
    /\ CloseSession(s)
    /\ \/ /\ Goto(s, "scp_connect")
          /\ Logged(s, Append(log[s], Got(Ev("mkdir", remote_host[s], s), << >>)))
       \/ /\ Goto(s, "mkdir_connect")
          /\ UNCHANGED log
    /\ UNCHANGED <<cfgvars, pid, remote_host, call, port, ret, pre,
                   run_script, launchedOn>>

\* mkdir -p of the resource path: its result is ignored.
MkdirRun(s) ==
    /\ pc[s] = "mkdir_run"
    /\ CloseSession(s)
    /\ LET e == Ev("mkdir", remote_host[s], s) IN
       \/ /\ Goto(s, "scp_connect")
          /\ \E status \in {0, 1} :
               Logged(s, Append(log[s], [Got(e, << >>) EXCEPT !.status = status]))
          /\ UNCHANGED ret
       \/ /\ Finish(s, Raised("RemoteCommandFailure"))
          /\ Logged(s, Append(log[s], e))
    /\ UNCHANGED <<cfgvars, pid, remote_host, call, port, pre,
                   run_script, launchedOn>>

ScpConnect(s) == Connect(s, "scp_connect", "scp_run")

\* The staged certificates are copied; start() goes on to the launch.
ScpRun(s) ==
    /\ pc[s] = "scp_run"
    /\ CloseSession(s)
    /\ LET e == Ev("scp", remote_host[s], s) IN
       \/ /\ Finish(s, Raised("RemoteCommandFailure"))
          /\ Logged(s, Append(log[s], e))
          /\ UNCHANGED run_script
       \/ LocalSteps(s, Append(log[s], Got(e, << >>)), port[s].val)
    /\ UNCHANGED <<cfgvars, pid, remote_host, call, port, pre,
                   launchedOn>>

LaunchConnect(s) == Connect(s, "launch_connect", "launch_run")

\* Variant: the script is handed over as start() rendered it.
TransmittedScript_Own(s) == [by |-> s, cmd |-> RemoteCmd(port[s].val)]

\* conn.run("bash -s", stdin=run_script): the stdin is the file of that
\* name as it is when the session reads it.
TransmittedScript(s) == run_script

\* exec_notebook's `bash -s` with the script file as stdin returns; start()
\* stores the pid and returns.
LaunchRun(s) ==
    /\ pc[s] = "launch_run"
    /\ CloseSession(s)
    /\ LET e == [Ev("launch", remote_host[s], s)
                   EXCEPT !.cmd = TransmittedScript(s).cmd,
                          !.author = TransmittedScript(s).by]
       IN
       \/ /\ Finish(s, Raised("RemoteCommandFailure"))
          /\ Logged(s, Append(log[s], e))
          /\ KeepState
       \/ \E out \in Stdouts :
            LET r == ExecNotebook(out) IN
            IF r.raise
            THEN /\ Finish(s, Raised("ValueError"))
                 /\ Logged(s, Append(log[s], Read(e, out)))
                 /\ KeepState
            ELSE /\ pid' = [pid EXCEPT ![s] = r.pid]
                 /\ launchedOn' = [launchedOn EXCEPT ![s] = remote_host[s]]
                 /\ Logged(s, Append(log[s],
                                [Got(e, out) EXCEPT !.pid = r.pid]))
                 /\ Finish(s, StartResult(r.pid, remote_host[s], port[s].val))
                 /\ UNCHANGED remote_host
    /\ UNCHANGED <<cfgvars, call, port, pre, run_script>>

----------------------------------------------------------------------------
(* poll() and stop()                                                       *)

\* poll() after remote_signal(0): `if not alive` clears and returns 0.
PollAfterSignal(s, alive) ==
    IF alive
    THEN /\ Finish(s, RetNone)
         /\ KeepState
    ELSE /\ ClearStateOf(s)
         /\ Finish(s, RetInt(0))

\* Variant: stop() clears the state only when the signal was delivered.
StopAfterSignal_OnSuccess(s, alive) ==
    /\ IF alive THEN ClearStateOf(s) ELSE KeepState
    /\ Finish(s, RetNone)

\* stop() after remote_signal(15): the result is dropped, the state cleared.
StopAfterSignal(s, alive) ==
    /\ ClearStateOf(s)
    /\ Finish(s, RetNone)

\* poll() up to remote_signal's connect.
PollCall(s) ==
    /\ Begin(s, "poll")
    /\ IF NoPid(s)
       THEN /\ ClearStateOf(s)
            /\ Finish(s, RetInt(0))
       ELSE /\ Goto(s, "poll_connect")
            /\ KeepState
            /\ UNCHANGED ret
    /\ UNCHANGED <<cfgvars, port, log, sessions, run_script>>

PollConnect(s) == Connect(s, "poll_connect", "poll_run")

\* kill -s 0 returns: poll() reports the process alive or clears the state.
PollRun(s) ==
    /\ pc[s] = "poll_run"
    /\ CloseSession(s)
    /\ LET e == [Ev("signal", remote_host[s], s)
                   EXCEPT !.sig = SigProbe, !.pid = pid[s]]
       IN
       \/ /\ Finish(s, Raised("RemoteCommandFailure"))
          /\ Logged(s, Append(log[s], e))
          /\ KeepState
       \/ \E retcode \in {0, 1} :
            /\ Logged(s, Append(log[s],
                           [Got(e, << >>) EXCEPT !.status = retcode]))
            /\ PollAfterSignal(s, Alive(retcode))
    /\ UNCHANGED <<cfgvars, call, port, pre, run_script>>

\* stop() up to remote_signal's connect.
StopCall(s) ==
    /\ Begin(s, "stop")
    /\ Goto(s, "stop_connect")
    /\ UNCHANGED <<cfgvars, pid, remote_host, port, ret, log,
                   sessions, run_script, launchedOn>>

\* Variant: stop() clears the state although the connection failed.
StopConnect_ClearsOnFailure(s) ==
    /\ pc[s] = "stop_connect"
    /\ \/ /\ sessions' = [sessions EXCEPT ![s] = @ + 1]
          /\ Goto(s, "stop_run")
          /\ KeepState
          /\ UNCHANGED ret
       \/ /\ Finish(s, Raised("ConnectionFailure"))
          /\ ClearStateOf(s)
          /\ UNCHANGED sessions
    /\ UNCHANGED <<cfgvars, call, port, pre, log, run_script>>

\* remote_signal(15)'s connect: a failure leaves stop() before clear_state.
StopConnect(s) == Connect(s, "stop_connect", "stop_run")

\* kill -s 15 returns: stop() clears the state whatever the exit status.
StopRun(s) ==
    /\ pc[s] = "stop_run"
    /\ CloseSession(s)
    /\ LET e == [Ev("signal", remote_host[s], s)
                   EXCEPT !.sig = SigTerm, !.pid = pid[s]]
       IN
       \/ /\ Finish(s, Raised("RemoteCommandFailure"))
          /\ Logged(s, Append(log[s], e))
          /\ KeepState
       \/ \E retcode \in {0, 1} :
            /\ Logged(s, Append(log[s],
                           [Got(e, << >>) EXCEPT !.status = retcode]))
            /\ StopAfterSignal(s, Alive(retcode))
    /\ UNCHANGED <<cfgvars, call, port, pre, run_script>>

----------------------------------------------------------------------------
(* The persisted state                                                     *)

\* Records the orchestrator may hand to load_state: each key present or not.
StatePids == {-1, 0, 1}
StateHosts == {"h1", DefaultHost}

StateMap(hasPid, p, hasHost, h) ==
    [k \in (IF hasPid THEN {"pid"} ELSE {}) \cup
            (IF hasHost THEN {"remote_host"} ELSE {})
        |-> IF k = "pid" THEN p ELSE h]

\* load_state(m), between two calls.  What a record restores is taken as the
\* orchestrator's word: it is not held against an earlier launch.
LoadState(s) ==
    /\ Begin(s, "load_state")
    /\ \E hasPid \in BOOLEAN, hasHost \in BOOLEAN :
       \E p \in (IF hasPid THEN StatePids ELSE {0}),
          h \in (IF hasHost THEN StateHosts ELSE {""}) :
         LET m == StateMap(hasPid, p, hasHost, h) IN
         /\ pid' = [pid EXCEPT ![s] = LoadedPid(s, m)]
         /\ remote_host' = [remote_host EXCEPT ![s] = LoadedHost(s, m)]
         /\ launchedOn' = [launchedOn EXCEPT ![s] =
                IF DOMAIN m = {} THEN @ ELSE ""]
         /\ Logged(s, <<[Ev("load_state", LoadedHost(s, m), s)
                           EXCEPT !.done = TRUE, !.state = m]>>)
    /\ Finish(s, RetNone)
    /\ UNCHANGED <<cfgvars, port, sessions, run_script>>

\* clear_state(), between two calls.
ClearState(s) ==
    /\ pc[s] = "idle"
    /\ ClearStateOf(s)
    /\ UNCHANGED <<cfgvars, pc, call, port, ret, pre, log,
                   sessions, run_script>>

\* The caller takes the result; the coroutine's locals are gone.
Return(s) ==
    /\ pc[s] = "done"
    /\ pc' = [pc EXCEPT ![s] = "idle"]
    /\ call' = [call EXCEPT ![s] = "none"]
    /\ port' = [port EXCEPT ![s] = NoneVal]
    /\ ret' = [ret EXCEPT ![s] = Pending]
    /\ pre' = [pre EXCEPT ![s] = NoSnapshot]
    /\ log' = [log EXCEPT ![s] = << >>]
    /\ UNCHANGED <<cfgvars, pid, remote_host, sessions,
                   run_script, launchedOn>>

----------------------------------------------------------------------------

\* The state after construction: trait defaults, one spawner in use.
InitOf(active) ==
    /\ remote_hosts \in Pools
    /\ internal_ssl \in BOOLEAN
    /\ ssh_forward_tunnel_client \in BOOLEAN
    /\ hub_api_url \in ApiUrls
    /\ pid = [s \in Spawners |-> 0]
    /\ remote_host = [s \in Spawners |-> DefaultHost]
    /\ pc = [s \in Spawners |-> IF s \in active THEN "idle" ELSE "off"]
    /\ call = [s \in Spawners |-> "none"]
    /\ port = [s \in Spawners |-> NoneVal]
    /\ ret = [s \in Spawners |-> Pending]
    /\ pre = [s \in Spawners |-> NoSnapshot]
    /\ log = [s \in Spawners |-> << >>]
    /\ sessions = [s \in Spawners |-> 0]
    /\ run_script = NoFile
    /\ launchedOn = [s \in Spawners |-> ""]

Init == InitOf({"s1"})

Next ==
    \E s \in Spawners :
        \/ StartCall(s)
        \/ PortConnect(s)
        \/ PortRun(s)
        \/ MkdirConnect(s)
        \/ MkdirRun(s)
        \/ ScpConnect(s)
        \/ ScpRun(s)
        \/ LaunchConnect(s)
        \/ LaunchRun(s)
        \/ PollCall(s)
        \/ PollConnect(s)
        \/ PollRun(s)
        \/ StopCall(s)
        \/ StopConnect(s)
        \/ StopRun(s)
        \/ LoadState(s)
        \/ ClearState(s)
        \/ Return(s)

Spec == Init /\ [][Next]_vars

\* The remote calls of spawner s: each asyncssh.connect and each command
\* awaited in a session.
RemoteReturns(s) ==
    \/ PortConnect(s) \/ PortRun(s)
    \/ MkdirConnect(s) \/ MkdirRun(s)
    \/ ScpConnect(s) \/ ScpRun(s)
    \/ LaunchConnect(s) \/ LaunchRun(s)
    \/ PollConnect(s) \/ PollRun(s)
    \/ StopConnect(s) \/ StopRun(s)

\* The configurations that differ in what is awaited: the pool and
\* internal_ssl.  The tunnel keys and the callback URL add no await.
InitLive ==
    /\ Init
    /\ ~ssh_forward_tunnel_client
    /\ hub_api_url = ""

\* The program under the assumption that every remote call a coroutine
\* awaits returns (with a result or an exception).
SpecLive ==
    InitLive /\ [][Next]_vars /\ \A s \in Spawners : WF_vars(RemoteReturns(s))

\* Two spawners of the same user (one script path /tmp/<user>_run.sh), each
\* running one start() on the same event loop, without certificates and
\* tunnel keys.
InitRace ==
    /\ InitOf(Spawners)
    /\ remote_hosts = <<"h1">>
    /\ ~internal_ssl
    /\ ~ssh_forward_tunnel_client

NextRace ==
    \E s \in Spawners :
        \/ StartCall(s)
        \/ PortConnect(s)
        \/ PortRun(s)
        \/ LaunchConnect(s)
        \/ LaunchRun(s)

SpecRace == InitRace /\ [][NextRace]_vars

----------------------------------------------------------------------------
(* Properties                                                              *)

Last(lg) == lg[Len(lg)]
Finished(s, c) == pc[s] = "done" /\ call[s] = c
Returned(s) == ret[s].kind # "raise"
Cleared(s) == pid[s] = ClearedPid /\ remote_host[s] = DefaultHost
ClearedSnapshot == [pid |-> 0, host |-> DefaultHost]
EmptyRecord == StateMap(FALSE, 0, FALSE, "")
Events(s, op) == {i \in 1..Len(log[s]) : log[s][i].op = op}

\* C1: a start that begins in the cleared state and returns a failure
\* marker (False after port negotiation, None after the launch) leaves the
\* cleared state behind: pid = 0 and remote_host = the sentinel.
C1_FailedStartReverts ==
    \A s \in Spawners :
        (/\ Finished(s, "start")
         /\ ret[s] \in {RetFalse, RetNone}
         /\ pre[s] = ClearedSnapshot)
        => Cleared(s)

\* C2: between calls and at the end of every call, pid > 0 implies that
\* remote_host is non-empty and, for a pid that start() launched, is the host
\* on which it was launched.
C2_PidImpliesLaunchHost ==
    \A s \in Spawners :
        (pc[s] \in {"idle", "done"} /\ pid[s] > 0)
        => /\ remote_host[s] # ""
           /\ launchedOn[s] # "" => remote_host[s] = launchedOn[s]

\* C3: when the host chosen is h, the negotiated port is p # 0 and
\* exec_notebook returns n >= 0, start() returns (h, p) and get_state()
\* yields host h and pid n (the pid key is absent exactly when n = 0, the
\* schema's default).
C3_SuccessfulStart ==
    \A s \in Spawners :
        (/\ Finished(s, "start")
         /\ log[s] # << >>
         /\ Last(log[s]).op = "launch"
         /\ Last(log[s]).done
         /\ Last(log[s]).pid >= 0)
        => LET h == log[s][1].host
               n == Last(log[s]).pid
           IN /\ log[s][1].op = "choose"
              /\ ~port[s].none /\ port[s].val # 0
              /\ ret[s] = RetPair(h, port[s].val)
              /\ GetState(s) = StateMap(n # 0, n, TRUE, h)

C3_Witness ==
    \E s \in Spawners :
        /\ Finished(s, "start")
        /\ log[s] # << >>
        /\ Last(log[s]).op = "launch"
        /\ Last(log[s]).done
        /\ Last(log[s]).pid > 0
        /\ log[s][1].host = "h2"
        /\ ret[s].kind = "pair"

\* C4: when the port helper prints nothing, remote_random_port returns None
\* and start() returns False without raising; that start performs nothing
\* after the negotiation: no staging, no tunnel, no launch.
C4_NoPortNoLaunch ==
    \A s \in Spawners :
        (/\ call[s] = "start"
         /\ \E i \in Events(s, "port") : log[s][i].empty)
        => /\ pc[s] = "done"
           /\ ret[s] = RetFalse
           /\ port[s].none
           /\ \A i \in 1..Len(log[s]) : log[s][i].op \in {"choose", "port"}
           /\ \A i \in Events(s, "port") : log[s][i].done

C4_Witness ==
    \E s \in Spawners :
        /\ Finished(s, "start")
        /\ \E i \in Events(s, "port") : log[s][i].empty
        /\ ret[s] = RetFalse

\* C5: when the launch script prints nothing, exec_notebook returns the
\* negative sentinel instead of raising, and start() returns None, never a
\* (host, port) pair.
C5_EmptyLaunchOutput ==
    \A s \in Spawners :
        \A i \in Events(s, "launch") :
            log[s][i].empty
            => /\ log[s][i].done
               /\ log[s][i].pid = LaunchFailed
               /\ log[s][i].pid < 0
               /\ Finished(s, "start")
               /\ ret[s] = RetNone

C5_Witness ==
    \E s \in Spawners :
        /\ Finished(s, "start")
        /\ \E i \in Events(s, "launch") : log[s][i].empty
        /\ ret[s] = RetNone

\* C6: when stop()'s kill -s 15 has returned, with exit status 0 or not,
\* the state is cleared at the end of stop().
C6_StopClears ==
    \A s \in Spawners :
        (/\ Finished(s, "stop")
         /\ \E i \in Events(s, "signal") : log[s][i].done)
        => (Cleared(s) /\ ret[s] = RetNone)

C6_Witness ==
    \E s \in Spawners :
        /\ Finished(s, "stop")
        /\ \E i \in Events(s, "signal") :
              /\ log[s][i].done
              /\ log[s][i].status # 0
              /\ log[s][i].sig = SigTerm
        /\ pre[s].pid > 0
        /\ pre[s].host = "h1"

\* C7: get_state() holds the pid only when pid # 0 and the host only when
\* the host is not the default sentinel; after a stop() that returned, it
\* is the empty record.
C7_DumpOmitsDefaults ==
    \A s \in Spawners :
        /\ "pid" \in DOMAIN GetState(s) => pid[s] # 0
        /\ "remote_host" \in DOMAIN GetState(s) => remote_host[s] # DefaultHost
        /\ (Finished(s, "stop") /\ Returned(s)) => GetState(s) = EmptyRecord

\* C8: poll() with pid = 0 finishes at once: exit code 0, the state
\* cleared, no transport session opened and no remote command issued.
C8_PollWithoutPid ==
    \A s \in Spawners :
        (call[s] = "poll" /\ pre[s].pid = 0)
        => /\ pc[s] = "done"
           /\ ret[s] = RetInt(0)
           /\ Cleared(s)
           /\ log[s] = << >>
           /\ sessions[s] = 0

C8_Witness ==
    \E s \in Spawners :
        /\ Finished(s, "poll")
        /\ pre[s].pid = 0
        /\ pre[s].host = "h1"

\* C9: poll() with a non-zero pid whose kill -s 0 exits 0 returns None
\* ("still running") and leaves pid and remote_host as they were.
C9_PollAlive ==
    \A s \in Spawners :
        (/\ Finished(s, "poll")
         /\ pre[s].pid # 0
         /\ \E i \in Events(s, "signal") :
               log[s][i].done /\ log[s][i].status = 0)
        => (ret[s] = RetNone /\ Snapshot(s) = pre[s])

C9_Witness ==
    \E s \in Spawners :
        /\ Finished(s, "poll")
        /\ pre[s].pid > 0
        /\ \E i \in Events(s, "signal") :
              /\ log[s][i].done
              /\ log[s][i].status = 0
              /\ log[s][i].sig = SigProbe
              /\ log[s][i].pid = pre[s].pid

\* C10: poll() with a non-zero pid whose kill -s 0 exits non-zero clears
\* the state and returns exit code 0.
C10_PollDead ==
    \A s \in Spawners :
        (/\ Finished(s, "poll")
         /\ pre[s].pid # 0
         /\ \E i \in Events(s, "signal") :
               log[s][i].done /\ log[s][i].status # 0)
        => (ret[s] = RetInt(0) /\ Cleared(s))

C10_Witness ==
    \E s \in Spawners :
        /\ Finished(s, "poll")
        /\ pre[s].pid > 0
        /\ pre[s].host = "h1"
        /\ \E i \in Events(s, "signal") :
              /\ log[s][i].done
              /\ log[s][i].status # 0
              /\ log[s][i].sig = SigProbe

\* The dict given to the load_state that has just finished.
Loaded(s) == log[s][1].state

PidKey(m) == "pid" \in DOMAIN m
HostKey(m) == "remote_host" \in DOMAIN m

\* C11 (as stated): after load_state(m) on any prior state the pid is m's
\* pid if present and 0 otherwise, and the host is m's remote_host if
\* present and the sentinel otherwise.
C11_AbsentKeysAreDefaults ==
    \A s \in Spawners :
        Finished(s, "load_state") =>
            /\ pid[s] = (IF PidKey(Loaded(s)) THEN Loaded(s)["pid"] ELSE 0)
            /\ remote_host[s] = (IF HostKey(Loaded(s))
                                 THEN Loaded(s)["remote_host"]
                                 ELSE DefaultHost)

\* C11 (amended): load_state(m) sets the pid and the host from the keys
\* that are present and leaves the attribute of an absent key as it was;
\* on the cleared (or fresh) state that is 0 and the sentinel, and there
\* load_state(get_state()) of any dumped (pid, host) reproduces the pair.
C11_AbsentKeysKeepState ==
    \A s \in Spawners :
        Finished(s, "load_state") =>
            /\ pid[s] = (IF PidKey(Loaded(s)) THEN Loaded(s)["pid"]
                         ELSE pre[s].pid)
            /\ remote_host[s] = (IF HostKey(Loaded(s))
                                 THEN Loaded(s)["remote_host"]
                                 ELSE pre[s].host)
            /\ pre[s] = ClearedSnapshot =>
                  \A p \in StatePids, h \in StateHosts :
                      Loaded(s) = GetStateOf(p, h) =>
                          pid[s] = p /\ remote_host[s] = h

\* A record without the pid key has been loaded over a stored pid.
C11_Witness ==
    \E s \in Spawners :
        /\ Finished(s, "load_state")
        /\ ~PidKey(Loaded(s))
        /\ pre[s].pid # 0

\* C12: the host start() selects is a member of the pool (of a one-element
\* pool, that element); on an empty pool the selection raises (IndexError,
\* the configuration error of an empty pool) and start() ends there: it
\* performs no operation and opens no session.
C12_HostFromPool ==
    \A s \in Spawners :
        call[s] = "start" =>
            IF remote_hosts = << >>
            THEN /\ pc[s] = "done"
                 /\ ret[s] = Raised("IndexError")
                 /\ log[s] = << >>
                 /\ sessions[s] = 0
            ELSE /\ log[s][1].op = "choose"
                 /\ \E i \in 1..Len(remote_hosts) :
                        log[s][1].host = remote_hosts[i]
                 /\ Len(remote_hosts) = 1 => log[s][1].host = remote_hosts[1]
                 /\ \A i \in 2..Len(log[s]) : log[s][i].host = log[s][1].host

\* A start over the empty pool has ended.
C12_Witness ==
    \E s \in Spawners : Finished(s, "start") /\ remote_hosts = << >>

\* The events of the reverse-tunnel step in the current call's log.
TunnelOps == {"tunnel_write", "tunnel_chmod", "tunnel_exec"}
TunnelSteps(s) == {i \in 1..Len(log[s]) : log[s][i].op \in TunnelOps}

\* C13: when reverse tunnelling is not enabled (ssh_forward_tunnel_client
\* is False), start() writes and executes no tunnel script.
C13_TunnelOnlyWhenEnabled ==
    \A s \in Spawners :
        (call[s] = "start" /\ ~ssh_forward_tunnel_client) =>
            TunnelSteps(s) = {}

\* The steps of a start in the order of the claim.
StartOrder ==
    << "choose", "port", "stage_certs", "mkdir", "scp", "stage_keys",
       "tunnel_write", "tunnel_chmod", "tunnel_exec", "script_write",
       "launch" >>

\* The steps the configuration enables.
StepEnabled(op) ==
    CASE op \in {"stage_certs", "mkdir", "scp"} -> internal_ssl
      [] op = "stage_keys" -> ssh_forward_tunnel_client
      [] OTHER -> TRUE

\* C14: within one start the steps occur strictly in the order host
\* selection, port negotiation, credential staging and upload (if enabled),
\* tunnel setup, launch: what a start has done is always an initial part
\* of that order (a step is taken only after every enabled earlier step,
\* none twice), the launch is its last step and no remote operation
\* follows it: the call has ended when the launch has returned.
C14_StartOrder ==
    LET order == SelectSeq(StartOrder, StepEnabled) IN
    \A s \in Spawners :
        call[s] = "start" =>
            /\ Len(log[s]) <= Len(order)
            /\ \A i \in 1..Len(log[s]) :
                  /\ log[s][i].op = order[i]
                  /\ log[s][i].op = "launch" =>
                        i = Len(log[s]) /\ pc[s] = "done"

\* A start with every optional step enabled has launched.
C14_Witness ==
    \E s \in Spawners :
        /\ Finished(s, "start")
        /\ internal_ssl /\ ssh_forward_tunnel_client
        /\ Events(s, "launch") # {}
        /\ Len(log[s]) = Len(StartOrder)

\* The locations at which a remote command is running in a session.
RunLocs ==
    {"port_run", "mkdir_run", "scp_run", "launch_run", "poll_run", "stop_run"}

\* C15: a spawner has a session open exactly while one of its remote
\* commands is running: at most one at a time, none when the next
\* operation connects, none when the call has returned or raised, none
\* between calls.
C15_OneSessionAtATime ==
    \A s \in Spawners :
        /\ sessions[s] \in {0, 1}
        /\ sessions[s] = 1 <=> pc[s] \in RunLocs

\* A start has raised out of its third session (port, mkdir, scp).
C15_Witness ==
    \E s \in Spawners :
        /\ Finished(s, "start")
        /\ ~Returned(s)
        /\ Events(s, "scp") # {}
        /\ sessions[s] = 0

\* C16: nothing ties the script a launch transmits to the start that
\* launches: the launch sends the content the script file has when it is
\* read, written by whichever start of the user wrote it last.
C16_LaunchSendsFileContent ==
    [][\A s \in Spawners :
          (pc[s] = "launch_run" /\ pc'[s] = "done") =>
              /\ Last(log'[s]).op = "launch"
              /\ Last(log'[s]).cmd = run_script.cmd
              /\ Last(log'[s]).author = run_script.by]_vars

\* The second start has overwritten the first one's script before the
\* first transmitted it: the first launch ran the second start's command.
C16_Witness ==
    \E s \in Spawners :
        /\ Finished(s, "start")
        /\ \E i \in Events(s, "script_write"), j \in Events(s, "launch") :
              /\ log[s][i].author = s
              /\ log[s][j].author # s
              /\ log[s][j].cmd # log[s][i].cmd
              /\ log[s][j].done

\* The tunnel script was not there after the write, or its chmod failed.
TunnelFailed(s) ==
    \E i \in 1..Len(log[s]) :
        log[s][i].op \in {"tunnel_write", "tunnel_chmod"} /\ ~log[s][i].done

\* C17: when the tunnel script is not created or its chmod fails, start()
\* raises and ends: the tunnel is not executed, the launch script is not
\* written, the launch is not invoked, and the pid is the one before the
\* call.
C17_TunnelFailureAborts ==
    \A s \in Spawners :
        (call[s] = "start" /\ TunnelFailed(s)) =>
            /\ pc[s] = "done"
            /\ ret[s] = Raised("Exception")
            /\ Events(s, "tunnel_exec") = {}
            /\ Events(s, "script_write") = {}
            /\ Events(s, "launch") = {}
            /\ pid[s] = pre[s].pid

\* The chmod of the tunnel script has failed in a start of a spawner that
\* holds a pid.
C17_Witness ==
    \E s \in Spawners :
        /\ Finished(s, "start")
        /\ \E i \in Events(s, "tunnel_chmod") : ~log[s][i].done
        /\ pre[s].pid = 1

\* Every port argument of the command c carries the port p.
CarriesPort(c, p) ==
    /\ DOMAIN c = DOMAIN BaseCmd
    /\ \A i \in DOMAIN c :
          HasPortPrefix(BaseCmd[i]) => c[i] = Arg("--port", p, "")

\* The callback URL of c is the override exactly when one is configured.
CarriesUrl(c) ==
    /\ DOMAIN c = DOMAIN BaseCmd
    /\ \A i \in DOMAIN c :
          BaseCmd[i].name = "--hub-api-url" =>
              c[i].url = (IF hub_api_url # "" THEN hub_api_url
                          ELSE HubDefaultApiUrl)

\* C18 (as stated): the command a launch transmits carries the port this
\* start negotiated, which is the port start() returns, and the callback
\* URL is the override exactly when one is configured.
C18_LaunchedCmdCarriesPort ==
    \A s \in Spawners :
        \A j \in Events(s, "launch") :
            /\ CarriesPort(log[s][j].cmd, port[s].val)
            /\ CarriesUrl(log[s][j].cmd)
            /\ ret[s].kind = "pair" => CarriesPort(log[s][j].cmd, ret[s].val)

\* C18 (amended): the command start() writes to the launch script carries
\* the negotiated port in every port argument and the override URL
\* exactly when one is configured; the launch transmits that command, and
\* start() returns its port, unless another start of the same user has
\* rewritten the script file in between.
C18_WrittenCmdCarriesPort ==
    \A s \in Spawners :
        /\ \A i \in Events(s, "script_write") :
              /\ CarriesPort(log[s][i].cmd, port[s].val)
              /\ CarriesUrl(log[s][i].cmd)
        /\ \A j \in Events(s, "launch") :
              /\ CarriesUrl(log[s][j].cmd)
              /\ log[s][j].author = s =>
                    /\ \A i \in Events(s, "script_write") :
                          log[s][j].cmd = log[s][i].cmd
                    /\ ret[s].kind = "pair" =>
                          CarriesPort(log[s][j].cmd, ret[s].val)

\* A start has transmitted its own script, with the override URL, and
\* returned (host, port) while another start was under way.
C18_Witness ==
    \E s \in Spawners :
        /\ Finished(s, "start")
        /\ ret[s].kind = "pair"
        /\ hub_api_url # ""
        /\ Last(log[s]).op = "launch" /\ Last(log[s]).author = s
        /\ ret[s].val = 10
        /\ \E o \in Spawners \ {s} : call[o] = "start"

\* The locations at which a coroutine awaits a remote call.
WaitLocs ==
    RunLocs \cup {"port_connect", "mkdir_connect", "scp_connect",
                  "launch_connect", "poll_connect", "stop_connect"}

\* C19: when every remote call returns, every call of start, poll and stop
\* ends (returns or raises); and a coroutine that awaits a remote call has
\* no other step to take: only the return of that call moves it on.
C19_CallsTerminate ==
    /\ \A s \in Spawners : (call[s] # "none") ~> (pc[s] = "done")
    /\ [][\A s \in Spawners :
            (pc[s] \in WaitLocs /\ pc'[s] # pc[s]) => RemoteReturns(s)]_vars

\* A start awaits its third remote call (the copy of the certificates).
C19_Witness ==
    \E s \in Spawners : call[s] = "start" /\ pc[s] = "scp_run"

\* C20: every signal poll() or stop() has sent targets a strictly positive
\* pid, and a host other than the default host name.
C20_SignalsTargetLaunchedPid ==
    \A s \in Spawners :
        \A i \in Events(s, "signal") :
            /\ log[s][i].pid > 0
            /\ log[s][i].host # DefaultHost

\* The call had a signal to send: stop() always, poll() when a pid is held.
MustSignal(s) == call[s] = "stop" \/ (call[s] = "poll" /\ pre[s].pid # 0)

\* C21: when the connection fails during poll() or stop(), the call raises
\* the connection failure (a call that had a signal to send ends without
\* having sent it exactly by raising it), no session is left open, and the
\* pid and the host are the ones before the call.
C21_ConnectionFailureKeepsState ==
    \A s \in Spawners :
        (pc[s] = "done" /\ call[s] \in {"poll", "stop"}) =>
            /\ (MustSignal(s) /\ log[s] = << >>)
                  <=> ret[s] = Raised("ConnectionFailure")
            /\ ret[s] = Raised("ConnectionFailure") =>
                  /\ Snapshot(s) = pre[s]
                  /\ sessions[s] = 0

\* The connection has failed in a stop() of a spawner that holds a
\* launched pid.
C21_Witness ==
    \E s \in Spawners :
        /\ Finished(s, "stop")
        /\ ret[s] = Raised("ConnectionFailure")
        /\ pre[s] = [pid |-> 1, host |-> "h1"]

====
